---- MODULE Spec2Model ----
(***************************************************************************)
(* Reconstruction coordinator of the Sanskrit manuscript portal.           *)
(*                                                                         *)
(* Two servers implement POST /reconstruct and the per-session websocket   *)
(* channel: the gateway (src/src/api/server.py) and the local backend      *)
(* (src/backend_server.py).  Both call the model service                   *)
(* (src/src/models/service.py), which ranks the candidates produced by     *)
(* one of the two generators (panini_t5.py, panini_t5_simple.py).          *)
(*                                                                         *)
(* Scores are fixed-point integers in units of 10^-5 (0.95 is 95000), so   *)
(* that the weighted sum and round(x, 3) are computed exactly.             *)
(***************************************************************************)
EXTENDS Integers, Sequences, FiniteSets, TLC

\* ---------------------------------------------------------------- bounds
MaxConn == 1
MaxMasks == 1
MaxN == 2
MaxLen == 3

\* Session ids (uuid4 strings), request tasks and websocket connections.
SessionIds == {"s1"}
Reqs == {"r1"}
Conns == 1..MaxConn
MaskIds == 0..(MaxMasks - 1)

\* Two sessions, two request tasks and one connection, for the runs in
\* which calls overlap.
OverlapSessionIds == {"s1", "s2"}
OverlapReqs == {"r1", "r2"}
OverlapConns == {1}

\* Two connections, for the runs in which a connection is replaced.
ChannelConns == {1, 2}

VARIABLES server, session_store, active_connections, conn, req,
          exported, validation, service

vars == <<server, session_store, active_connections, conn, req,
          exported, validation, service>>

Min(a, b) == IF a < b THEN a ELSE b
Max(a, b) == IF a > b THEN a ELSE b

\* ------------------------------------------------------------ candidates
\* One candidate of a response.  gen is the index of the generation loop
\* that produced it (candidate_id is assigned after ranking); text is the
\* candidate's sanskrit_text as the sequence of its whitespace-separated
\* tokens.
Candidate(gen, strategy, text, lm, grammar, conf, kg, combined) ==
    [gen |-> gen, strategy |-> strategy, text |-> text, lm_score |-> lm,
     grammar_score |-> grammar, model_confidence |-> conf,
     kg_compliance |-> kg, combined |-> combined]

\* 0.3*lm + 0.3*grammar + 0.2*confidence + 0.2*kg
WeightedSum(lm, grammar, conf, kg) ==
    (3 * lm + 3 * grammar + 2 * conf + 2 * kg) \div 10

\* round(x, 3): nearest multiple of 10^-3, exact halves to the even one
Round3(x) ==
    LET q == x \div 100
        r == x % 100
    IN  IF r < 50 THEN q * 100
        ELSE IF r > 50 THEN (q + 1) * 100
        ELSE IF q % 2 = 0 THEN q * 100 ELSE (q + 1) * 100

\* max(0.1, min(0.99, x))
Clamp(x) == Max(10000, Min(99000, x))

\* ---------------------------------------------------------------- ranking
\* list.sort(key=combined, reverse=True) is stable: an element goes after
\* every element already placed whose key is greater or equal.
RECURSIVE InsertSorted(_, _)
InsertSorted(x, s) ==
    IF s = <<>> THEN <<x>>
    ELSE IF Head(s).combined >= x.combined
         THEN <<Head(s)>> \o InsertSorted(x, Tail(s))
         ELSE <<x>> \o s

RECURSIVE SortAcc(_, _)
SortAcc(s, acc) ==
    IF s = <<>> THEN acc ELSE SortAcc(Tail(s), InsertSorted(Head(s), acc))

RECURSIVE Reverse(_)
Reverse(s) == IF s = <<>> THEN <<>> ELSE Reverse(Tail(s)) \o <<Head(s)>>

\* a sort that is correct on distinct keys but reverses the order of ties
RankReversedTies(cands) == SortAcc(Reverse(cands), <<>>)

\* candidates.sort(key=lambda x: x.scores.get("combined", 0.0), reverse=True)
Rank(cands) == SortAcc(cands, <<>>)

Truncate(s, n) == SubSeq(s, 1, Min(n, Len(s)))

\* ------------------------------------------------- generator (panini_t5)
\* What the forward pass and the service hand to the scorer: whether the
\* context outputs carry grammar_score / confidence (and their means), and
\* whether kg_context is non-empty and has a "sutras" key (the service's
\* _get_kg_context is {} without KG data and has no "sutras" key with it).
\* same_text: whether the sampled ids of every strategy decode to the same
\* text.
ScoringInputs ==
    { [has_scores |-> FALSE, grammar |-> 0, conf |-> 0,
       nonempty |-> FALSE, sutras |-> FALSE, same_text |-> TRUE],
      [has_scores |-> TRUE, grammar |-> 90000, conf |-> 60000,
       nonempty |-> TRUE, sutras |-> FALSE, same_text |-> FALSE] }

\* self.sanskrit_words of the simple generator, also used as the vocabulary
\* the full generator's tokenizer decodes to
sanskrit_words == <<"rama", "sita", "gacchati", "grham", "vanam">>

WordAt(i) == sanskrit_words[(i % Len(sanskrit_words)) + 1]

\* tokenizer.decode(sampled_ids[0], skip_special_tokens=True) of candidate i
DecodedText(ctx, i) ==
    IF ctx.same_text THEN <<"rama", "vanam">> ELSE <<WordAt(i), "gacchati">>

calculate_kg_compliance(kg_context) ==
    Min(80000 + (IF kg_context.sutras THEN 10000 ELSE 0), 100000)

calculate_candidate_scores(gen, strategy, text, ctx, kg_context) ==
    LET lm == 85000
        grammar == IF ctx.has_scores THEN ctx.grammar ELSE 80000
        conf == IF ctx.has_scores THEN ctx.conf ELSE 75000
        kg == IF kg_context.nonempty
              THEN calculate_kg_compliance(kg_context) ELSE 70000
    IN  Candidate(gen, strategy, text, lm, grammar, conf, kg,
                  WeightedSum(lm, grammar, conf, kg))

StrategyOf(i) ==
    IF i = 0 THEN "conservative"
    ELSE IF i = 1 THEN "creative" ELSE "memory_guided"

\* _apply_intelligent_constraints: "For now, return candidate as-is"
apply_intelligent_constraints(text, kg_context) == text

generate_intelligent_candidates(n, ctx, kg_context, use_constraints) ==
    LET text(i) ==
            IF use_constraints /\ kg_context.nonempty
            THEN apply_intelligent_constraints(DecodedText(ctx, i), kg_context)
            ELSE DecodedText(ctx, i)
        candidates ==
            [k \in 1..n |->
                calculate_candidate_scores(k - 1, StrategyOf(k - 1),
                                           text(k - 1), ctx, kg_context)]
    IN  Truncate(Rank(candidates), n)

\* ------------------------------ constraint validator (ConstraintDecoder)
\* The words of the vocabulary that end in one of the valid_endings of
\* _build_morphology_fst: sita (long a), grham and vanam (m with virama).
ends_with_valid_ending(token) == token \in {"sita", "grham", "vanam"}

\* a morphology check that rejects a token without a recognized ending
is_morphologically_valid_strict(token) ==
    token # "" /\ ends_with_valid_ending(token)

\* _is_morphologically_valid: only the empty token is invalid; a token
\* without a recognized ending is valid by default
is_morphologically_valid(token) ==
    IF token = "" THEN FALSE
    ELSE IF ends_with_valid_ending(token) THEN TRUE
    ELSE TRUE

\* The independent vowel a token ends in or begins with ("none" when its
\* last or first character is not one of the eight vowel letters): the
\* tokens a and i are single vowel letters.
final_char_vowel(token) == IF token \in {"a", "i"} THEN token ELSE "none"

initial_char_vowel(token) == IF token \in {"a", "i"} THEN token ELSE "none"

\* _build_sandhi_fst: the vowel pairs with a rule, over the letters a and i
vowel_sandhi == { <<"a", "a">>, <<"i", "a">> }

\* a sandhi check that rejects a vowel pair without a rule
is_valid_sandhi_strict(token1, token2) ==
    IF token1 = "" \/ token2 = "" THEN TRUE
    ELSE IF final_char_vowel(token1) # "none"
            /\ initial_char_vowel(token2) # "none"
    THEN <<final_char_vowel(token1), initial_char_vowel(token2)>>
            \in vowel_sandhi
    ELSE TRUE

\* _is_valid_sandhi: the rule of a vowel pair is looked up and not used;
\* every branch returns True
is_valid_sandhi(token1, token2) ==
    IF token1 = "" \/ token2 = "" THEN TRUE
    ELSE IF final_char_vowel(token1) # "none"
            /\ initial_char_vowel(token2) # "none"
    THEN LET expected == <<final_char_vowel(token1),
                           initial_char_vowel(token2)>> \in vowel_sandhi
         IN  TRUE
    ELSE TRUE

\* The two loops of is_valid_sequence, from index i on: a violation names
\* the token, or the two tokens, that failed the check.
RECURSIVE morphology_loop(_, _, _)
morphology_loop(tokens, i, violations) ==
    IF i > Len(tokens) THEN violations
    ELSE morphology_loop(tokens, i + 1,
            IF ~is_morphologically_valid(tokens[i])
            THEN Append(violations,
                        [check |-> "morphology", names |-> <<tokens[i]>>])
            ELSE violations)

RECURSIVE sandhi_loop(_, _, _)
sandhi_loop(tokens, i, violations) ==
    IF i > Len(tokens) - 1 THEN violations
    ELSE sandhi_loop(tokens, i + 1,
            IF ~is_valid_sandhi(tokens[i], tokens[i + 1])
            THEN Append(violations,
                        [check |-> "sandhi",
                         names |-> <<tokens[i], tokens[i + 1]>>])
            ELSE violations)

\* a validator that stops at the first violation
is_valid_sequence_first_only(tokens) ==
    LET violations == sandhi_loop(tokens, 1, morphology_loop(tokens, 1, <<>>))
    IN  [ok |-> Len(violations) = 0,
         violations |-> SubSeq(violations, 1, Min(1, Len(violations)))]

\* is_valid_sequence: the morphology violations of all tokens, then the
\* sandhi violations of all adjacent pairs
is_valid_sequence(tokens) ==
    LET violations == sandhi_loop(tokens, 1, morphology_loop(tokens, 1, <<>>))
    IN  [ok |-> Len(violations) = 0, violations |-> violations]

\* ------------------------------------------ generator (panini_t5_simple)
\* One outcome of the random calls made for one candidate: the index of the
\* word random.choice picks and the random.uniform values of
\* _generate_mock_scores.
Draw(word, lm, grammar, conf, kg) ==
    [word |-> word, lm |-> lm, grammar |-> grammar, conf |-> conf, kg |-> kg]

DrawPatterns == 1..2

\* The draws of candidate i under pattern p.  Pattern 1: in hard mode the
\* first two candidates tie, the third has scores with a fourth decimal and
\* the fifth scores above the fourth; every candidate draws another word.
\* Pattern 2: the second candidate scores above the first and draws the
\* same word.
DrawOf(p, i) ==
    IF i = 0 THEN Draw(0, -5000, -10000, -5000, IF p = 1 THEN 70000 ELSE 60000)
    ELSE IF p = 1 /\ i = 1 THEN Draw(1, 5000, 5000, -2500, 70000)
    ELSE IF p = 1 /\ i = 2 THEN Draw(2, 140, -2360, 70, 65540)
    ELSE IF p = 1 /\ i = 3 THEN Draw(3, -5000, -10000, -5000, 70000)
    ELSE IF p = 2 /\ i = 1 THEN Draw(0, 5000, 10000, 8000, 80000)
    ELSE IF i = 4 THEN Draw(4, 5000, 10000, 8000, 70000)
    ELSE Draw(i, 0, 0, 0, 70000)

generate_mock_scores(index, use_constraints, d) ==
    LET base_score == 95000 - index * 10000
        lm == Clamp(base_score + d.lm)
        grammar == Clamp(base_score + d.grammar)
        conf == Clamp(base_score + d.conf)
        kg == IF use_constraints THEN 95000 ELSE d.kg
        combined == WeightedSum(lm, grammar, conf, kg)
    IN  Candidate(index, "mock", <<WordAt(d.word)>>, Round3(lm),
                  Round3(grammar), Round3(conf), Round3(kg), Round3(combined))

generate_mock_candidates(n, use_constraints, p) ==
    Rank([k \in 1..n |->
            generate_mock_scores(k - 1, use_constraints, DrawOf(p, k - 1))])

\* ------------------------------------------------------- model service
\* An HTTP exchange with the model service: status 0 is a connection
\* failure, shape "other" a 200 body that is not a JSON object.
Body(shape, candidates, fallback_mode) ==
    [shape |-> shape, candidates |-> candidates,
     fallback_mode |-> fallback_mode]

NoBody == Body("none", <<>>, FALSE)

Response(status, body) == [status |-> status, body |-> body]

NoResponse == Response(-1, NoBody)

GeneratedLists(mode, n) ==
    { generate_intelligent_candidates(n, i, i, mode = "hard") :
        i \in ScoringInputs }
    \cup { generate_mock_candidates(n, mode = "hard", p) : p \in DrawPatterns }

\* ModelService.reconstruct_text: 500 when the model is not loaded or the
\* generator raises (self._generate_fallback_candidates is not an attribute
\* of ModelService, so the handler's own except turns it into a 500); an
\* empty list when mask_ids selects no mask; else the ranked candidates.
\* What self.model.generate_intelligent_candidates does in one call: it
\* raises, or it returns a list.
Raises == [raised |-> TRUE, candidates |-> <<>>]

Returns(candidates) == [raised |-> FALSE, candidates |-> candidates]

Generations(mode, n) ==
    { Raises } \cup { Returns(c) : c \in GeneratedLists(mode, n) }

\* ModelService.reconstruct_text, lines 128-199, with the model loaded or
\* not and one outcome of the generator
service_reconstruct_text(masks, mask_ids, n, loaded, generation) ==
    IF ~loaded THEN Response(500, NoBody)
    ELSE IF masks \cap mask_ids = {}
    THEN Response(200, Body("object", <<>>, FALSE))
    ELSE IF generation.raised
    THEN \* self._generate_fallback_candidates: AttributeError, caught by
         \* the outer except, which raises HTTPException(500)
         Response(500, NoBody)
    ELSE Response(200, Body("object", generation.candidates, FALSE))

ModelServiceResponses(masks, mask_ids, mode, n) ==
    { service_reconstruct_text(masks, mask_ids, n, loaded, g) :
        loaded \in BOOLEAN, g \in Generations(mode, n) }

\* What a POST to MODEL_SERVICE_URL/reconstruct can come back with.
BackendOutcomes(masks, mask_ids, mode, n) ==
    ModelServiceResponses(masks, mask_ids, mode, n)
    \cup { Response(0, NoBody), Response(200, Body("other", <<>>, FALSE)) }

\* ------------------------------------------- local backend's fallback
\* generate_enhanced_candidates: three fixed candidates.  Their scores
\* dictionaries carry lm_score, kg_confidence, grammar_score and combined,
\* and uncertainty_scores.confidence; kg_confidence is kept in
\* kg_compliance and the confidence in model_confidence.
sanskrit_candidates ==
    << Candidate(0, "grammar_guided", <<"gacchati">>,
                 94000, 95000, 95000, 96000, 95000),
       Candidate(1, "contextual", <<"tisthati">>,
                 91000, 94000, 90000, 93000, 92000),
       Candidate(2, "semantic_similarity", <<"raksati">>,
                 88000, 92000, 86000, 90000, 89000) >>

\* a fallback that in hard mode keeps only the candidates with a
\* grammar_score of 0.94 or more
generate_enhanced_candidates_by_mode(session_data, mask_ids, mode) ==
    Body("object",
         IF mode = "hard"
         THEN SelectSeq(sanskrit_candidates,
                        LAMBDA c : c.grammar_score >= 94000)
         ELSE sanskrit_candidates,
         TRUE)

\* session_data, mask_ids and mode are accepted and not used for the
\* candidates (session_data only feeds the metadata).
generate_enhanced_candidates(session_data, mask_ids, mode) ==
    Body("object", sanskrit_candidates, TRUE)

\* ---------------------------------------------------------------- state
\* note is "demo" for an entry that carries the note "Using demo data".
NoSession ==
    [exists |-> FALSE, masks |-> {}, reconstruction_results |-> NoBody,
     note |-> "none"]

Session(masks) ==
    [exists |-> TRUE, masks |-> masks, reconstruction_results |-> NoBody,
     note |-> "none"]

\* the demo entry of the local upload_file: three masks and the note
DemoSession == [Session(0..2) EXCEPT !.note = "demo"]

Modes == {"hard", "soft"}

\* seq orders the calls in flight by the time their handler started.
IdleReq ==
    [pc |-> "idle", image_id |-> "none", mask_ids |-> {}, mode |-> "hard",
     n_candidates |-> 0, found |-> FALSE, resp |-> NoResponse,
     result |-> NoBody, outcome |-> "none", events |-> <<>>,
     lost |-> FALSE, seq |-> 0]

\* A websocket: epoch orders the connections made for one session id,
\* acked tells whether a handshake_ack has been sent on it, inbound is the
\* type of the last message received on it and reply what the handler
\* sent in answer.
NoConn ==
    [st |-> "unused", sid |-> "none", epoch |-> 0, acked |-> FALSE,
     inbound |-> "none", reply |-> "none"]

\* The last answer of GET /export: status -1 before any call.
\* session is the registry entry the answer was made from and calls counts
\* the calls made so far, up to two.
NoExport ==
    [sid |-> "none", format |-> "none", status |-> -1,
     body |-> [media_type |-> "none",
               content |-> [generated_on |-> 0, ocr_data |-> {},
                            reconstruction_results |-> NoBody]],
     session |-> NoSession, calls |-> 0]

\* One call of the model service's /reconstruct: its request, whether the
\* model was loaded, what the generator did and the response.
NoService ==
    [pc |-> "unused", masks |-> {}, mask_ids |-> {}, mode |-> "hard",
     n_candidates |-> 0, loaded |-> FALSE, generation |-> Raises,
     resp |-> NoResponse]

\* One call of the constraint validator: its tokens and what it returned.
NoValidation == [pc |-> "unused", tokens |-> <<>>, ok |-> TRUE, violations |-> <<>>]

ProgressMsg(progress, to) ==
    [type |-> "reconstruction_progress", progress |-> progress,
     code |-> 0, to |-> to]

ErrorMsg(code, to) ==
    [type |-> "error", progress |-> 0, code |-> code, to |-> to]

ProgressStartGateway == 10
ProgressStartLocal == 25

\* a checkpoint value below the one already sent
ProgressCallIssuedEarly == ProgressStartLocal - 15

ProgressCallIssued == 50
ProgressComplete == 100

Init ==
    /\ server \in {"gateway", "local"}
    /\ session_store = [s \in SessionIds |-> NoSession]
    /\ active_connections = [s \in SessionIds |-> 0]
    /\ conn = [c \in Conns |-> NoConn]
    /\ req = [r \in Reqs |-> IdleReq]
    /\ exported = NoExport
    /\ service = NoService
    /\ validation = NoValidation

InitOverlap ==
    /\ server \in {"gateway", "local"}
    /\ session_store = [s \in OverlapSessionIds |-> NoSession]
    /\ active_connections = [s \in OverlapSessionIds |-> 0]
    /\ conn = [c \in OverlapConns |-> NoConn]
    /\ req = [r \in OverlapReqs |-> IdleReq]
    /\ exported = NoExport
    /\ service = NoService
    /\ validation = NoValidation

InitChannel ==
    /\ server \in {"gateway", "local"}
    /\ session_store = [s \in SessionIds |-> NoSession]
    /\ active_connections = [s \in SessionIds |-> 0]
    /\ conn = [c \in ChannelConns |-> NoConn]
    /\ req = [r \in Reqs |-> IdleReq]
    /\ exported = NoExport
    /\ service = NoService
    /\ validation = NoValidation

\* -------------------------------------------------------------- notifier
\* send_personal_message / send_message: nothing without a registered
\* connection; a send that raises removes the registration.
Registered(sid) == active_connections[sid] # 0

Delivers(sid) ==
    Registered(sid) /\ conn[active_connections[sid]].st = "open"

ConnectionsAfterSend(sid) ==
    IF Registered(sid) /\ ~Delivers(sid)
    THEN [active_connections EXCEPT ![sid] = 0]
    ELSE active_connections

EventsAfterSend(r, sid, msg) ==
    IF Delivers(sid) THEN Append(req[r].events, msg) ELSE req[r].events

\* ConnectionManager.disconnect
disconnect(sid) ==
    IF Registered(sid)
    THEN [active_connections EXCEPT ![sid] = 0]
    ELSE active_connections

LastEpoch(sid) ==
    LET e == { conn[c].epoch : c \in { d \in DOMAIN conn : conn[d].sid = sid } }
    IN  IF e = {} THEN 0 ELSE CHOOSE x \in e : \A y \in e : y <= x

\* a connect that keeps the connection already registered for the id
ConnectKeepingFirst(c, sid) ==
    IF Registered(sid) THEN active_connections
    ELSE [active_connections EXCEPT ![sid] = c]

\* ConnectionManager.connect
connect(c, sid) == [active_connections EXCEPT ![sid] = c]

\* websocket_endpoint up to its receive loop: accept and register; the
\* local backend then sends its handshake_ack, the gateway sends nothing
WsConnect(c, sid) ==
    /\ conn[c].st = "unused"
    /\ conn' = [conn EXCEPT ![c] =
                  [NoConn EXCEPT !.st = "open", !.sid = sid,
                                 !.epoch = LastEpoch(sid) + 1,
                                 !.acked = (server = "local")]]
    /\ active_connections' = connect(c, sid)
    /\ UNCHANGED <<service, exported, validation, server, session_store, req>>

\* What a client sends: messages of two of the types
\* handle_websocket_message names and of one it does not, and a text that
\* is not valid JSON.
MessageTypes == {"handshake", "mask_selection", "other", "invalid_json"}

\* what the receive loop sends in answer to a message of type mtype
ReplyTo(mtype) ==
    IF server = "local" THEN "echo"
    ELSE IF mtype = "handshake" THEN "handshake_ack"
    ELSE IF mtype = "mask_selection" THEN "context_update"
    ELSE "none"

\* One turn of the receive loop of connection c.  The answer is sent with
\* send_message(..., session_id), that is to the connection registered for
\* the session id, which is c unless c has been replaced.  On a text that
\* is not valid JSON json.loads raises and the handler ends: the gateway's
\* `except Exception` calls manager.disconnect(session_id), the local
\* backend catches WebSocketDisconnect only and leaves the registry as it
\* is.
WsReceive(c, mtype) ==
    /\ conn[c].st = "open"
    /\ LET sid == conn[c].sid
           reply == ReplyTo(mtype)
           to == active_connections[sid]
           acks == reply = "handshake_ack" /\ Delivers(sid)
       IN  IF mtype = "invalid_json"
           THEN /\ conn' = [conn EXCEPT ![c].st = "closed",
                                        ![c].inbound = mtype,
                                        ![c].reply = "none"]
                /\ active_connections' =
                     IF server = "gateway" THEN disconnect(sid)
                     ELSE active_connections
           ELSE /\ conn' = [d \in DOMAIN conn |->
                              [conn[d] EXCEPT
                                 !.inbound = IF d = c THEN mtype ELSE @,
                                 !.reply = IF d = c THEN reply ELSE @,
                                 !.acked = IF d = to /\ acks THEN TRUE ELSE @]]
                /\ active_connections' =
                     IF reply = "none" THEN active_connections
                     ELSE ConnectionsAfterSend(sid)
    /\ UNCHANGED <<service, exported, validation, server, session_store, req>>

\* the client goes away; the handler has not noticed yet
WsClientGone(c) ==
    /\ conn[c].st = "open"
    /\ conn' = [conn EXCEPT ![c].st = "dead"]
    /\ UNCHANGED <<service, exported, validation, server, session_store, active_connections, req>>

\* receive_text raises WebSocketDisconnect: manager.disconnect(session_id)
WsHandlerExit(c) ==
    /\ conn[c].st = "dead"
    /\ conn' = [conn EXCEPT ![c].st = "closed"]
    /\ active_connections' = disconnect(conn[c].sid)
    /\ UNCHANGED <<service, exported, validation, server, session_store, req>>

\* ---------------------------------------------------------------- upload
FreeIds == { s \in DOMAIN session_store : ~session_store[s].exists }

NewId == CHOOSE s \in FreeIds : TRUE

\* gateway upload_image with a successful OCR call (a failed one raises
\* 500 and stores nothing)
GwUpload(nm) ==
    /\ server = "gateway"
    /\ FreeIds # {}
    /\ session_store' = [session_store EXCEPT ![NewId] = Session(0..(nm - 1))]
    /\ UNCHANGED <<service, exported, validation, server, active_connections, conn, req>>

\* What the OCR call of an upload can do: answer 200 with a well-formed
\* body, fail (connection error or another status), or answer 200 with a
\* body on which enhance_ocr_result raises.
OcrOutcomes == {"ok", "failed", "raises"}

\* The entry upload_file stores.  process_with_ocr returns {} when the OCR
\* call fails and enhance_ocr_result({}) is {}: the entry has no text, no
\* masks and no tokens.  The demo entry is stored only by the handler's
\* except block, that is when the try block itself raises.
upload_file(ocr, nm) ==
    IF ocr = "ok" THEN Session(0..(nm - 1))
    ELSE IF ocr = "failed" THEN Session({})
    ELSE DemoSession

LbUpload(ocr, nm) ==
    /\ server = "local"
    /\ FreeIds # {}
    /\ session_store' = [session_store EXCEPT ![NewId] = upload_file(ocr, nm)]
    /\ UNCHANGED <<service, exported, validation, server, active_connections,
                   conn, req>>

\* ------------------------------------------------------ request dispatch
InFlight(r) == req[r].pc \notin {"idle", "done"}

\* the order number of a call that starts now
NextSeq ==
    LET used == { req[q].seq : q \in DOMAIN req }
    IN  1 + CHOOSE x \in used : \A y \in used : y <= x

\* a dispatch that admits one reconstruct call at a time
CanStartOneAtATime(r) ==
    req[r].pc = "idle" /\ \A q \in DOMAIN req : ~InFlight(q)

\* A handler starts as soon as its request arrives: neither server takes a
\* lock, so calls in flight do not hold back a new one.
CanStart(r) == req[r].pc = "idle"

\* ReconstructRequest: a body without image_id fails the pydantic model and
\* FastAPI answers 422 without calling the handler; mode is any string and
\* n_candidates any integer.
GwRequestRejected(r, mask_ids, mode, n) ==
    /\ server = "gateway"
    /\ CanStart(r)
    /\ req' = [req EXCEPT ![r] =
                  [IdleReq EXCEPT !.pc = "done", !.mask_ids = mask_ids,
                                  !.mode = mode, !.n_candidates = n,
                                  !.seq = NextSeq, !.outcome = "http422"]]
    /\ UNCHANGED <<service, exported, validation, server, session_store,
                   active_connections, conn>>

\* --------------------------------------------- gateway: reconstruct_text
\* Lines 175-187: resolve the session and send the first progress message.
\* The 404 for a missing session is raised inside the try block, so the
\* handler's own `except Exception` sends an error message and raises 500.
GwBegin(r, sid, mask_ids, mode, n) ==
    /\ server = "gateway"
    /\ CanStart(r)
    /\ LET found == session_store[sid].exists
           msg == IF found
                  THEN ProgressMsg(ProgressStartGateway, active_connections[sid])
                  ELSE ErrorMsg(500, active_connections[sid])
       IN  req' = [req EXCEPT ![r] =
                     [IdleReq EXCEPT
                        !.pc = IF found THEN "gw_await" ELSE "done",
                        !.image_id = sid, !.mask_ids = mask_ids,
                        !.mode = mode, !.n_candidates = n,
                        !.found = found, !.seq = NextSeq,
                        !.outcome = IF found THEN "none" ELSE "http500",
                        !.events = EventsAfterSend(r, sid, msg),
                        !.lost = ~Delivers(sid)]]
    /\ active_connections' = ConnectionsAfterSend(req'[r].image_id)
    /\ UNCHANGED <<service, exported, validation, server, session_store, conn>>

\* Lines 190-222: the model service answers (or the POST raises).  A send
\* suspends the handler only when a connection is registered; without one
\* the handler runs on to its return (lines 224-227) or to its except
\* block (229-236) in the same step.
GwBackendReturn(r) ==
    /\ server = "gateway"
    /\ req[r].pc = "gw_await"
    /\ LET q == req[r]
           sid == q.image_id
       IN  \E resp \in BackendOutcomes(session_store[sid].masks, q.mask_ids,
                                       q.mode, q.n_candidates) :
           /\ req' = [req EXCEPT ![r] =
                 IF resp.status = 0 \/ (resp.status = 200 /\ resp.body.shape # "object")
                 THEN \* client.post or result.get raises: except block
                      [q EXCEPT !.pc = "done", !.resp = resp,
                                !.outcome = "http500",
                                !.events = EventsAfterSend(r, sid,
                                    ErrorMsg(500, active_connections[sid])),
                                !.lost = q.lost \/ ~Delivers(sid)]
                 ELSE IF resp.status # 200
                 THEN \* lines 206-212: error message, then raise
                      [q EXCEPT !.pc = IF Registered(sid) THEN "gw_except"
                                       ELSE "done",
                                !.resp = resp,
                                !.outcome = IF Registered(sid) THEN "none"
                                            ELSE "http500",
                                !.events = EventsAfterSend(r, sid,
                                    ErrorMsg(resp.status, active_connections[sid])),
                                !.lost = q.lost \/ ~Delivers(sid)]
                 ELSE \* lines 214-222: completion message
                      [q EXCEPT !.pc = IF Registered(sid) THEN "gw_attach"
                                       ELSE "done",
                                !.resp = resp,
                                !.result = resp.body,
                                !.outcome = IF Registered(sid) THEN "none"
                                            ELSE "ok",
                                !.events = EventsAfterSend(r, sid,
                                    ProgressMsg(ProgressComplete,
                                                active_connections[sid])),
                                !.lost = q.lost \/ ~Delivers(sid)]]
           /\ active_connections' = ConnectionsAfterSend(sid)
           /\ session_store' =
                IF resp.status = 200 /\ resp.body.shape = "object"
                   /\ ~Registered(sid)
                THEN [session_store EXCEPT
                        ![sid].reconstruction_results = resp.body]
                ELSE session_store
    /\ UNCHANGED <<service, exported, validation, server, conn>>

\* Lines 229-236: the HTTPException raised at line 212 is caught by the
\* handler's own except block, which sends a second error message.
GwExcept(r) ==
    /\ server = "gateway"
    /\ req[r].pc = "gw_except"
    /\ LET q == req[r]
           sid == q.image_id
       IN  /\ req' = [req EXCEPT ![r] =
                 [q EXCEPT !.pc = "done", !.outcome = "http500",
                           !.events = EventsAfterSend(r, sid,
                               ErrorMsg(500, active_connections[sid])),
                           !.lost = q.lost \/ ~Delivers(sid)]]
           /\ active_connections' = ConnectionsAfterSend(sid)
    /\ UNCHANGED <<service, exported, validation, server, session_store, conn>>

\* Lines 224-227: store the result in the session and return it.
GwAttach(r) ==
    /\ server = "gateway"
    /\ req[r].pc = "gw_attach"
    /\ session_store' =
         [session_store EXCEPT
            ![req[r].image_id].reconstruction_results = req[r].result]
    /\ req' = [req EXCEPT ![r].pc = "done", ![r].outcome = "ok"]
    /\ UNCHANGED <<service, exported, validation, server, active_connections, conn>>

\* --------------------------------------- local backend: reconstruct_text
\* Lines 226-243: resolve the session; with a registered connection send
\* progress 25 (the await lets other tasks run before line 257), without
\* one fall through both guarded sends to the model service call.
LbBegin(r, sid, mask_ids, mode, n) ==
    /\ server = "local"
    /\ CanStart(r)
    /\ LET found == sid \in DOMAIN session_store /\ session_store[sid].exists
       IN  req' = [req EXCEPT ![r] =
                     [IdleReq EXCEPT
                        !.pc = IF ~found THEN "done"
                               ELSE IF Registered(sid) THEN "lb_progress50"
                               ELSE "lb_await",
                        !.image_id = sid, !.mask_ids = mask_ids,
                        !.mode = mode, !.n_candidates = n,
                        !.found = found, !.seq = NextSeq,
                        !.outcome = IF found THEN "none" ELSE "not_found",
                        !.events =
                            IF found
                            THEN EventsAfterSend(r, sid,
                                    ProgressMsg(ProgressStartLocal,
                                                active_connections[sid]))
                            ELSE <<>>,
                        !.lost = found /\ ~Delivers(sid)]]
    /\ active_connections' =
         IF sid \in DOMAIN session_store /\ session_store[sid].exists
         THEN ConnectionsAfterSend(sid) ELSE active_connections
    /\ UNCHANGED <<service, exported, validation, server, session_store, conn>>

\* Lines 246-264: second guarded send, then the model service is called.
LbProgress50(r) ==
    /\ server = "local"
    /\ req[r].pc = "lb_progress50"
    /\ LET q == req[r]
           sid == q.image_id
       IN  /\ req' = [req EXCEPT ![r] =
                 [q EXCEPT !.pc = "lb_await",
                           !.events = EventsAfterSend(r, sid,
                               ProgressMsg(ProgressCallIssued,
                                           active_connections[sid])),
                           !.lost = q.lost \/ ~Delivers(sid)]]
           /\ active_connections' = ConnectionsAfterSend(sid)
    /\ UNCHANGED <<service, exported, validation, server, session_store, conn>>

\* Lines 266-287: call_model_service raises on a failed POST or a non-200
\* status and the fallback list replaces the result; n_candidates sent to
\* the service is the literal 5.  The completion message is built (and
\* result.get evaluated) only when a connection is registered; an exception
\* there reaches the outer except, which returns an error dictionary.
LbBackendReturn(r) ==
    /\ server = "local"
    /\ req[r].pc = "lb_await"
    /\ \E resp \in BackendOutcomes(session_store[req[r].image_id].masks,
                                   req[r].mask_ids, req[r].mode, 5) :
       LET q == req[r]
           sid == q.image_id
           result == IF resp.status = 200 THEN resp.body
                     ELSE generate_enhanced_candidates(session_store[sid],
                                                       q.mask_ids, q.mode)
           raises == Registered(sid) /\ result.shape # "object"
       IN  /\ req' = [req EXCEPT ![r] =
                 IF raises
                 THEN [q EXCEPT !.pc = "done", !.resp = resp,
                                !.outcome = "error"]
                 ELSE [q EXCEPT !.pc = "done", !.resp = resp,
                                !.result = result, !.outcome = "ok",
                                !.events = EventsAfterSend(r, sid,
                                    ProgressMsg(ProgressComplete,
                                                active_connections[sid])),
                                !.lost = q.lost \/ ~Delivers(sid)]]
           /\ active_connections' =
                IF raises THEN active_connections
                ELSE ConnectionsAfterSend(sid)
    /\ UNCHANGED <<service, exported, validation, server, session_store, conn>>

\* The HTTP response has been sent; the slot serves the next request.
Finish(r) ==
    /\ req[r].pc = "done"
    /\ req' = [req EXCEPT ![r] = IdleReq]
    /\ UNCHANGED <<service, exported, validation, server, session_store, active_connections, conn>>

\* ------------------------------------------------ gateway: export_results
\* A document: generated_on is 0 when the document carries no time.
Document(generated_on, ocr_data, reconstruction_results) ==
    [generated_on |-> generated_on, ocr_data |-> ocr_data,
     reconstruction_results |-> reconstruction_results]

\* json.dumps(session_data, indent=2): every key of the entry, the attached
\* result included
json_dumps(session_data) ==
    Document(0, session_data.masks, session_data.reconstruction_results)

\* generate_tei_xml: the template with datetime.now() and the OCR text; the
\* attached result is not part of it
generate_tei_xml(session_data, now) ==
    Document(now, session_data.masks, NoBody)

Formats == {"json", "tei", "csv"}

Clock == {1, 2}

NoContent == [media_type |-> "none", content |-> Document(0, {}, NoBody)]

\* a content in which the json document carries the time of the call too
export_content_stamped(session_data, format, now) ==
    IF format = "json"
    THEN [media_type |-> "application/json",
          content |-> [json_dumps(session_data) EXCEPT !.generated_on = now]]
    ELSE [media_type |-> "application/xml",
          content |-> generate_tei_xml(session_data, now)]

\* lines 287-295: the content of a supported format
export_content(session_data, format, now) ==
    IF format = "json"
    THEN [media_type |-> "application/json",
          content |-> json_dumps(session_data)]
    ELSE [media_type |-> "application/xml",
          content |-> generate_tei_xml(session_data, now)]

\* export_results: the HTTPException(404) and HTTPException(400) are raised
\* inside the try block, so `except Exception` turns both into a 500.
export_results(image_id, format, now) ==
    /\ server = "gateway"
    /\ LET found == image_id \in DOMAIN session_store
                     /\ session_store[image_id].exists
           raised == IF ~found THEN 404
                     ELSE IF format \notin {"json", "tei"} THEN 400
                     ELSE 0
       IN  exported' =
             [sid |-> image_id, format |-> format,
              status |-> IF raised # 0 THEN 500 ELSE 200,
              body |-> IF raised # 0 THEN NoContent
                       ELSE export_content(session_store[image_id], format, now),
              session |-> IF found THEN session_store[image_id] ELSE NoSession,
              calls |-> Min(exported.calls + 1, 2)]
    /\ UNCHANGED <<service, validation, server, session_store, active_connections,
                   conn, req>>

\* ------------------------------------------------------------------ next
Next ==
    \/ \E nm \in 0..MaxMasks : GwUpload(nm)
    \/ \E ocr \in {"ok", "failed"}, nm \in 0..MaxMasks : LbUpload(ocr, nm)
    \/ \E c \in Conns, sid \in SessionIds : WsConnect(c, sid)
    \/ \E c \in Conns : WsClientGone(c)
    \/ \E c \in Conns : WsHandlerExit(c)
    \/ \E r \in Reqs, sid \in SessionIds, mask_ids \in SUBSET MaskIds,
          mode \in Modes, n \in 1..MaxN : GwBegin(r, sid, mask_ids, mode, n)
    \/ \E r \in Reqs : GwBackendReturn(r)
    \/ \E r \in Reqs : GwExcept(r)
    \/ \E r \in Reqs : GwAttach(r)
    \/ \E r \in Reqs, sid \in SessionIds, mask_ids \in SUBSET MaskIds,
          mode \in Modes, n \in 1..MaxN : LbBegin(r, sid, mask_ids, mode, n)
    \/ \E r \in Reqs : LbProgress50(r)
    \/ \E r \in Reqs : LbBackendReturn(r)
    \/ \E r \in Reqs : Finish(r)

Spec == Init /\ [][Next]_vars

\* Overlapping calls: two sessions and two request tasks that each serve
\* one request for one candidate in hard mode over all masks.
NextOverlap ==
    \/ GwUpload(MaxMasks)
    \/ LbUpload("ok", MaxMasks)
    \/ \E c \in OverlapConns, sid \in OverlapSessionIds : WsConnect(c, sid)
    \/ \E c \in OverlapConns : WsClientGone(c)
    \/ \E c \in OverlapConns : WsHandlerExit(c)
    \/ \E r \in OverlapReqs, sid \in OverlapSessionIds :
          GwBegin(r, sid, MaskIds, "hard", 1)
    \/ \E r \in OverlapReqs : GwBackendReturn(r)
    \/ \E r \in OverlapReqs : GwExcept(r)
    \/ \E r \in OverlapReqs : GwAttach(r)
    \/ \E r \in OverlapReqs, sid \in OverlapSessionIds :
          LbBegin(r, sid, MaskIds, "hard", 1)
    \/ \E r \in OverlapReqs : LbProgress50(r)
    \/ \E r \in OverlapReqs : LbBackendReturn(r)

SpecOverlap == InitOverlap /\ [][NextOverlap]_vars

\* The channel of one session: connections that replace each other, clients
\* that send messages, and one request for one candidate in hard mode.
NextChannel ==
    \/ GwUpload(MaxMasks)
    \/ LbUpload("ok", MaxMasks)
    \/ \E c \in ChannelConns, sid \in SessionIds : WsConnect(c, sid)
    \/ \E c \in ChannelConns : WsClientGone(c)
    \/ \E c \in ChannelConns : WsHandlerExit(c)
    \/ \E c \in ChannelConns, mtype \in MessageTypes : WsReceive(c, mtype)
    \/ \E r \in Reqs, sid \in SessionIds : GwBegin(r, sid, MaskIds, "hard", 1)
    \/ \E r \in Reqs : GwBackendReturn(r)
    \/ \E r \in Reqs : GwExcept(r)
    \/ \E r \in Reqs : GwAttach(r)
    \/ \E r \in Reqs, sid \in SessionIds : LbBegin(r, sid, MaskIds, "hard", 1)
    \/ \E r \in Reqs : LbProgress50(r)
    \/ \E r \in Reqs : LbBackendReturn(r)

SpecChannel == InitChannel /\ [][NextChannel]_vars

\* Request bodies with fields outside their documented values: a mode that
\* is neither hard nor soft, n_candidates = 0 and a body without image_id
\* (request.get("image_id") is None on the local backend); uploads with
\* every outcome of the OCR call.
RequestModes == Modes \cup {"other"}

RequestN == {0, 1}

NextInput ==
    \/ GwUpload(MaxMasks)
    \/ \E ocr \in OcrOutcomes : LbUpload(ocr, MaxMasks)
    \/ \E c \in OverlapConns, sid \in SessionIds : WsConnect(c, sid)
    \/ \E c \in OverlapConns : WsClientGone(c)
    \/ \E c \in OverlapConns : WsHandlerExit(c)
    \/ \E r \in Reqs, mode \in RequestModes, n \in RequestN :
          GwRequestRejected(r, MaskIds, mode, n)
    \/ \E r \in Reqs, sid \in SessionIds, mode \in RequestModes, n \in RequestN :
          GwBegin(r, sid, MaskIds, mode, n)
    \/ \E r \in Reqs : GwBackendReturn(r)
    \/ \E r \in Reqs : GwExcept(r)
    \/ \E r \in Reqs : GwAttach(r)
    \/ \E r \in Reqs, sid \in SessionIds \cup {"none"}, mode \in RequestModes,
          n \in RequestN : LbBegin(r, sid, MaskIds, mode, n)
    \/ \E r \in Reqs : LbProgress50(r)
    \/ \E r \in Reqs : LbBackendReturn(r)
    \/ \E r \in Reqs : Finish(r)

SpecInput == InitChannel /\ [][NextInput]_vars

\* The gateway with its export route: one session, one request task for one
\* candidate in hard mode, one connection, and exports of the session and
\* of an unknown id in every format.
InitExport ==
    /\ server = "gateway"
    /\ session_store = [s \in SessionIds |-> NoSession]
    /\ active_connections = [s \in SessionIds |-> 0]
    /\ conn = [c \in OverlapConns |-> NoConn]
    /\ req = [r \in Reqs |-> IdleReq]
    /\ exported = NoExport
    /\ service = NoService
    /\ validation = NoValidation

NextExport ==
    \/ GwUpload(MaxMasks)
    \/ \E c \in OverlapConns, sid \in SessionIds : WsConnect(c, sid)
    \/ \E c \in OverlapConns : WsClientGone(c)
    \/ \E c \in OverlapConns : WsHandlerExit(c)
    \/ \E r \in Reqs, sid \in SessionIds : GwBegin(r, sid, MaskIds, "hard", 1)
    \/ \E r \in Reqs : GwBackendReturn(r)
    \/ \E r \in Reqs : GwExcept(r)
    \/ \E r \in Reqs : GwAttach(r)
    \/ \E r \in Reqs : Finish(r)
    \/ \E image_id \in SessionIds \cup {"unknown"}, format \in Formats,
          now \in Clock : export_results(image_id, format, now)

SpecExport == InitExport /\ [][NextExport]_vars

\* The model service on its own: every request over the masks, both modes
\* and 1 to ServiceMaxN candidates, with the model loaded or not.
ServiceMaxN == 7

InitService ==
    /\ server = "gateway"
    /\ session_store = [s \in SessionIds |-> NoSession]
    /\ active_connections = [s \in SessionIds |-> 0]
    /\ conn = [c \in Conns |-> NoConn]
    /\ req = [r \in Reqs |-> IdleReq]
    /\ exported = NoExport
    /\ validation = NoValidation
    /\ service \in { [NoService EXCEPT !.pc = "called", !.masks = m,
                                       !.mask_ids = ids, !.mode = mode,
                                       !.n_candidates = n, !.loaded = loaded] :
                        m \in SUBSET MaskIds, ids \in SUBSET MaskIds,
                        mode \in Modes, n \in 1..ServiceMaxN,
                        loaded \in BOOLEAN }

\* reconstruct_endpoint: return model_service.reconstruct_text(request)
reconstruct_endpoint ==
    /\ service.pc = "called"
    /\ \E g \in Generations(service.mode, service.n_candidates) :
          service' = [service EXCEPT
                        !.pc = "returned", !.generation = g,
                        !.resp = service_reconstruct_text(
                                    service.masks, service.mask_ids,
                                    service.n_candidates, service.loaded, g)]
    /\ UNCHANGED <<server, session_store, active_connections, conn, req,
                   exported, validation>>

NextService == reconstruct_endpoint

SpecService == InitService /\ [][NextService]_vars

\* The validator on its own: every token sequence of up to MaxLen tokens
\* over the empty token, a word with a recognized ending, a word without
\* one and two single vowel letters.
ValidationTokens == {"", "rama", "sita", "a", "i"}

TokenSequences == UNION { [1..n -> ValidationTokens] : n \in 0..MaxLen }

InitValidate ==
    /\ server = "gateway"
    /\ session_store = [s \in SessionIds |-> NoSession]
    /\ active_connections = [s \in SessionIds |-> 0]
    /\ conn = [c \in Conns |-> NoConn]
    /\ req = [r \in Reqs |-> IdleReq]
    /\ exported = NoExport
    /\ service = NoService
    /\ validation \in { [NoValidation EXCEPT !.pc = "called", !.tokens = t] :
                           t \in TokenSequences }

\* is_valid, violations = self.constraint_decoder.is_valid_sequence(tokens, ...)
ValidateTokens ==
    /\ validation.pc = "called"
    /\ LET returned == is_valid_sequence(validation.tokens)
       IN  validation' = [validation EXCEPT !.pc = "returned",
                                            !.ok = returned.ok,
                                            !.violations = returned.violations]
    /\ UNCHANGED <<server, session_store, active_connections, conn, req,
                   exported, service>>

NextValidate == ValidateTokens

SpecValidate == InitValidate /\ [][NextValidate]_vars

\* ================================================================ claims
Done(r) == req[r].pc = "done"

IsProgress(m) == m.type = "reconstruction_progress"

IsTerminal(m) ==
    m.type = "error" \/ (IsProgress(m) /\ m.progress = ProgressComplete)

ProgressEvents(r) == SelectSeq(req[r].events, IsProgress)

TerminalEvents(r) == SelectSeq(req[r].events, IsTerminal)

BackendFailed(r) == req[r].resp.status \in {0, 500}

\* every genuine candidate the model service can return
GenuineCandidates ==
    UNION { { l[i] : i \in 1..Len(l) } :
              l \in UNION { GeneratedLists(mode, 5) : mode \in Modes } }

\* C1: when the call to the generation backend fails (unreachable or
\* non-success status), reconstruct on an existing session returns a
\* successful result with a non-empty candidates list marked as fallback.
C1_FallbackOnBackendFailure ==
    \A r \in Reqs :
        (Done(r) /\ req[r].found /\ BackendFailed(r))
            => /\ req[r].outcome = "ok"
               /\ req[r].result.candidates # <<>>
               /\ req[r].result.fallback_mode

\* C2: a result returned for a reconstruct request on an existing session
\* contains at least one candidate, whatever the backend answered; an
\* empty-but-successful result is never returned.
C2_NeverEmptySuccess ==
    \A r \in Reqs :
        (Done(r) /\ req[r].found /\ req[r].outcome = "ok")
            => Len(req[r].result.candidates) >= 1

\* C3: reconstruct on a session id that is not in the registry ends in a
\* not-found outcome, publishes no event, calls no backend and produces no
\* candidates.
C3_NotFoundIsSilent ==
    \A r \in Reqs :
        (Done(r) /\ ~req[r].found)
            => /\ req[r].outcome = "not_found"
               /\ req[r].events = <<>>
               /\ req[r].resp = NoResponse
               /\ req[r].result = NoBody

C5_ErrorEventOnFailure ==
    \A r \in Reqs :
        LET ev == req[r].events
        IN  (Done(r) /\ req[r].found /\ req[r].outcome # "ok"
                /\ ~req[r].lost /\ ProgressEvents(r) # <<>>)
            => \E j \in 1..Len(ev) :
                  /\ ev[j].type = "error"
                  /\ \A i \in 1..Len(ev) : IsProgress(ev[i]) => i < j

\* C6: at most one terminal event (completion at 100 or an error event) is
\* published for a request, and exactly one for a finished request on an
\* existing session whose every message found a live subscriber.
C6_OneTerminalEvent ==
    \A r \in Reqs :
        /\ Len(TerminalEvents(r)) <= 1
        /\ (Done(r) /\ req[r].found /\ ~req[r].lost)
              => Len(TerminalEvents(r)) = 1

\* C7: a returned result has at most the requested number of candidates.
C7_AtMostN ==
    \A r \in Reqs :
        (Done(r) /\ req[r].outcome = "ok")
            => Len(req[r].result.candidates) <= req[r].n_candidates

\* C8: the candidates of every response are ordered by combined score
\* descending, and candidates with equal combined keep generation order.
C8_RankedStable ==
    \A r \in Reqs :
        LET c == req[r].result.candidates
        IN  \A i, j \in 1..Len(c) :
                i < j => /\ c[i].combined >= c[j].combined
                         /\ c[i].combined = c[j].combined
                               => c[i].gen < c[j].gen

C8_Witness ==
    \E r \in Reqs :
        LET c == req[r].result.candidates
        IN  /\ Done(r)
            /\ \E i, j \in 1..Len(c) :
                  i < j /\ c[i].combined = c[j].combined
            /\ \E i, j \in 1..Len(c) : i < j /\ c[i].gen > c[j].gen

\* C9: every candidate of a returned result carries
\* combined = 0.3*lm + 0.3*grammar + 0.2*confidence + 0.2*kg of its own
\* score fields.
C9_CombinedIsWeightedSum ==
    \A r \in Reqs :
        (Done(r) /\ req[r].outcome = "ok")
            => \A i \in 1..Len(req[r].result.candidates) :
                  LET c == req[r].result.candidates[i]
                  IN  c.combined = WeightedSum(c.lm_score, c.grammar_score,
                                               c.model_confidence,
                                               c.kg_compliance)

\* C10: every candidate of a fallback result is tagged "fallback" and its
\* kg-compliance, confidence and combined scores are below those of every
\* genuine candidate.
C10_FallbackBelowGenuine ==
    \A r \in Reqs :
        (Done(r) /\ req[r].outcome = "ok" /\ req[r].result.fallback_mode)
            => \A i \in 1..Len(req[r].result.candidates) :
                  LET c == req[r].result.candidates[i]
                  IN  /\ c.strategy = "fallback"
                      /\ \A g \in GenuineCandidates :
                            /\ c.kg_compliance < g.kg_compliance
                            /\ c.model_confidence < g.model_confidence
                            /\ c.combined < g.combined

C12_NoLostUpdate ==
    [][\A r \in DOMAIN req :
          (server = "gateway" /\ req[r].outcome # "ok" /\ req'[r].outcome = "ok")
              => ~\E q \in DOMAIN req :
                     /\ q # r
                     /\ req[q].image_id = req[r].image_id
                     /\ req[q].pc = "done" /\ req[q].outcome = "ok"
                     /\ req[q].seq > req[r].seq]_vars

\* C13: while a call is suspended awaiting the backend, a call on another
\* session is not held back: a new call can start on any other session,
\* and a call in flight on another session can take its next publishing
\* or attaching step.
C13_DistinctSessionsDoNotBlock ==
    \A q \in DOMAIN req, r \in DOMAIN req :
        (q # r /\ req[q].pc \in {"gw_await", "lb_await"})
        => /\ req[r].pc = "idle" =>
                \A sid \in DOMAIN session_store :
                    sid # req[q].image_id =>
                        \/ ENABLED GwBegin(r, sid, MaskIds, "hard", 1)
                        \/ ENABLED LbBegin(r, sid, MaskIds, "hard", 1)
           /\ req[r].image_id # req[q].image_id =>
                /\ req[r].pc = "gw_except" => ENABLED GwExcept(r)
                /\ req[r].pc = "gw_attach" => ENABLED GwAttach(r)
                /\ req[r].pc = "lb_progress50" => ENABLED LbProgress50(r)

C13_Witness ==
    \E q \in DOMAIN req, r \in DOMAIN req :
        /\ req[q].pc = "gw_await"
        /\ Done(r) /\ req[r].outcome = "ok"
        /\ req[r].seq > req[q].seq
        /\ req[r].image_id # req[q].image_id
        /\ Len(req[r].events) = 2
        /\ req[r].result.candidates # <<>>
        /\ session_store[req[r].image_id].reconstruction_results = req[r].result

\* C14: a step of a reconstruct call changes the session registry only by
\* replacing the reconstruction_results of the call's own session with the
\* result the call returns, and it does so exactly in the step in which
\* the call succeeds; a failing call and all other sessions and fields are
\* left as they were.
C14_OnlyLastResult ==
    [][req' # req =>
         /\ \A s \in DOMAIN session_store :
               session_store'[s] # session_store[s] =>
                   \E r \in DOMAIN req :
                       /\ req'[r].image_id = s
                       /\ req[r].outcome # "ok" /\ req'[r].outcome = "ok"
                       /\ session_store'[s] =
                            [session_store[s] EXCEPT
                               !.reconstruction_results = req'[r].result]
         /\ \A r \in DOMAIN req :
               (req[r].outcome # "ok" /\ req'[r].outcome = "ok") =>
                   session_store'[req'[r].image_id].reconstruction_results
                       = req'[r].result]_vars

C16_DeliveryNeverChangesOutcome ==
    \A q \in DOMAIN req, r \in DOMAIN req :
        (/\ Done(q) /\ Done(r)
         /\ req[q].found = req[r].found
         /\ req[q].mask_ids = req[r].mask_ids
         /\ req[q].mode = req[r].mode
         /\ req[q].resp = req[r].resp)
        => /\ req[q].outcome = req[r].outcome
           /\ req[q].result = req[r].result

\* C17: a connection has been sent its handshake acknowledgment before any
\* event of a reconstruct call is delivered to it, and a message of a type
\* the server does not recognize is answered with an echo.
C17_HandshakeFirstAndEcho ==
    [][/\ \A r \in DOMAIN req :
             Len(req'[r].events) > Len(req[r].events) =>
                 conn[req'[r].events[Len(req'[r].events)].to].acked
       /\ \A c \in DOMAIN conn :
             conn'[c].inbound = "other" => conn'[c].reply = "echo"]_vars

C20_NoDuplicateText ==
    \A r \in DOMAIN req :
        (Done(r) /\ req[r].outcome = "ok") =>
            \A i \in DOMAIN req[r].result.candidates,
               j \in DOMAIN req[r].result.candidates :
                i # j => req[r].result.candidates[i].text
                            # req[r].result.candidates[j].text

\* C21: the strategies are assigned round-robin: the raw output with
\* generation index i comes from the conservative, creative or
\* memory-guided strategy according to i mod 3.
C21_RoundRobinStrategies ==
    \A r \in DOMAIN req :
        (Done(r) /\ req[r].outcome = "ok") =>
            \A i \in DOMAIN req[r].result.candidates :
                LET c == req[r].result.candidates[i]
                IN  c.strategy \in {"conservative", "creative", "memory_guided"}
                    => c.strategy =
                         (IF c.gen % 3 = 0 THEN "conservative"
                          ELSE IF c.gen % 3 = 1 THEN "creative"
                          ELSE "memory_guided")

\* The indexes of the tokens that fail the morphology check and of the
\* adjacent pairs that fail the sandhi check.
FailedMorphology(tokens) ==
    { i \in 1..Len(tokens) : ~is_morphologically_valid(tokens[i]) }

FailedSandhi(tokens) ==
    { i \in 1..(Len(tokens) - 1) : ~is_valid_sandhi(tokens[i], tokens[i + 1]) }

\* the k-th smallest element of a set of indexes
KthOf(F, k) == CHOOSE i \in F : Cardinality({ j \in F : j <= i }) = k

\* C22: validate checks every token and every adjacent pair: it returns
\* one violation per failed check, the morphology violations in token
\* order and then the sandhi violations in pair order, each naming what
\* failed, and ok is true exactly when there is no violation.
C22_ValidateChecksAll ==
    validation.pc = "returned" =>
        LET tokens == validation.tokens
            v == validation.violations
            m == Cardinality(FailedMorphology(tokens))
            n == Cardinality(FailedSandhi(tokens))
        IN  /\ validation.ok <=> (v = <<>>)
            /\ Len(v) = m + n
            /\ \A k \in 1..m :
                  v[k] = [check |-> "morphology",
                          names |-> <<tokens[KthOf(FailedMorphology(tokens), k)]>>]
            /\ \A k \in 1..n :
                  LET i == KthOf(FailedSandhi(tokens), k)
                  IN  v[m + k] = [check |-> "sandhi",
                                  names |-> <<tokens[i], tokens[i + 1]>>]

\* a sequence with two failing tokens around a passing one
C22_Witness ==
    /\ validation.pc = "returned"
    /\ validation.tokens = <<"", "rama", "">>
    /\ ~validation.ok
    /\ Len(validation.violations) = 2

InvalidRequest(r) ==
    /\ req[r].pc # "idle"
    /\ \/ req[r].image_id = "none"
       \/ req[r].mode \notin Modes
       \/ req[r].n_candidates <= 0

\* C24: a reconstruct request with a missing or invalid field is rejected
\* at once with an input error: no progress event is published or
\* attempted, no backend call is made and the session registry is left as
\* it was.
C24_InvalidRequestRejected ==
    [][\A r \in DOMAIN req :
          InvalidRequest(r)' =>
              /\ req'[r].pc = "done"
              /\ req'[r].outcome \in {"http422", "input_error"}
              /\ req'[r].events = <<>> /\ ~req'[r].lost
              /\ req'[r].resp = NoResponse
              /\ session_store' = session_store]_vars

\* C25: export in json format is read-only and idempotent: no export
\* changes the session registry, and a json export of a session whose
\* entry is as it was at the previous json export of that session returns
\* the same output.
C25_ExportIdempotent ==
    [][exported' # exported =>
         /\ session_store' = session_store
         /\ (/\ exported.status = 200 /\ exported'.status = 200
             /\ exported.format = "json" /\ exported'.format = "json"
             /\ exported'.sid = exported.sid
             /\ exported'.session = exported.session)
            => exported'.body = exported.body]_vars

\* the second of two json exports of a session with an attached result
C25_Witness ==
    /\ exported.calls = 2
    /\ exported.status = 200 /\ exported.format = "json"
    /\ exported.session = session_store[exported.sid]
    /\ exported.body.content.reconstruction_results.candidates # <<>>

\* C30: export reports its errors as raised: 404 for an id that is not in
\* the registry, 400 for a format other than json and tei, and in both
\* cases the session registry is unchanged.
C30_ExportErrorKinds ==
    [][exported' # exported =>
         /\ session_store' = session_store
         /\ (exported'.sid \notin DOMAIN session_store
             \/ ~session_store[exported'.sid].exists)
            => exported'.status = 404
         /\ (/\ exported'.sid \in DOMAIN session_store
             /\ session_store[exported'.sid].exists
             /\ exported'.format \notin {"json", "tei"})
            => exported'.status = 400]_vars

\* C26: when the model raises during candidate generation, the model
\* service answers with a successful response that carries
\* min(n_candidates, 6) fallback candidates, each with combined 0.4.
C26_ServiceFallbackOnGenerationError ==
    (/\ service.pc = "returned"
     /\ service.loaded
     /\ service.masks \cap service.mask_ids # {}
     /\ service.generation.raised)
    => /\ service.resp.status = 200
       /\ Len(service.resp.body.candidates) = Min(service.n_candidates, 6)
       /\ \A i \in DOMAIN service.resp.body.candidates :
             service.resp.body.candidates[i].combined = 40000

\* C27: on the local backend an upload whose OCR call fails registers the
\* demo entry (demo text, three masks, the demo note), not an entry with
\* no text, masks and tokens.
C27_DemoDataOnOcrFailure ==
    [][LbUpload("failed", MaxMasks) =>
          \E s \in DOMAIN session_store :
              /\ ~session_store[s].exists
              /\ session_store'[s] = DemoSession]_vars

\* C28: a connection that is still in its receive loop and was made last
\* for its session id is the one registered for that id, also after the
\* handler of a connection it replaced has ended.
C28_NewestStaysRegistered ==
    \A c \in DOMAIN conn :
        (conn[c].st = "open" /\ conn[c].epoch = LastEpoch(conn[c].sid))
            => active_connections[conn[c].sid] = c

\* C29: the connection registered for a session id belongs to a handler
\* that is still running: however a handler ends, the entry it registered
\* does not stay behind.
C29_NoStaleConnection ==
    \A sid \in DOMAIN active_connections :
        Registered(sid) => conn[active_connections[sid]].st # "closed"
====
